---- MODULE Spec2Model ----
(***************************************************************************)
(* Model of dna_com_analysis.py: the per-frame centre-of-mass loop, the    *)
(* displacement / time-step / instantaneous-velocity chain, the rounding   *)
(* of the trajectory, the options menu and the centre-of-mass overlay.     *)
(*                                                                         *)
(* A float is a record [k, n, d]: k = "fin" is the rational n/d in lowest  *)
(* terms with d > 0, k = "nan" is NaN, k = "inf" is +/-infinity (sign n).  *)
(* A frame is a sequence of rows, a row a sequence of intensities; the     *)
(* 0-based numpy index i is position i + 1 of the sequence.                *)
(* Timestamps are whole ticks (a float with denominator 1).                *)
(***************************************************************************)
EXTENDS Integers, Sequences, FiniteSets, TLC

\* ---- bounds ----------------------------------------------------------
MaxN == 2
MaxH == 2
MaxW == 2
MaxI == 1
MaxT == 1
PointDim == 4
PointFrames == 3
MaxLen == 3
MaxCoord == 2

VARIABLES array_tiff, timestamps, ts_numpy, pc, frame,
          cmx_coords, cmy_coords, cmx_coords_floats, cmy_coords_floats,
          x_disp, y_disp, time_steps, x_inst_vel, y_inst_vel,
          cmx_rounded, cmy_rounded, user_input, user_choice, quit_program,
          stack_overlaid, err

vars == <<array_tiff, timestamps, ts_numpy, pc, frame,
          cmx_coords, cmy_coords, cmx_coords_floats, cmy_coords_floats,
          x_disp, y_disp, time_steps, x_inst_vel, y_inst_vel,
          cmx_rounded, cmy_rounded, user_input, user_choice, quit_program,
          stack_overlaid, err>>

\* ---- float arithmetic ---------------------------------------------------
Abs(a) == IF a < 0 THEN -a ELSE a

Min(a, b) == IF a < b THEN a ELSE b

RECURSIVE GCD(_, _)
GCD(a, b) == IF b = 0 THEN a ELSE GCD(b, a % b)

NaN == [k |-> "nan", n |-> 0, d |-> 1]

Inf(s) == [k |-> "inf", n |-> s, d |-> 1]

\* the float n/d, d > 0, in lowest terms
Fin(n, d) == LET g == GCD(Abs(n), d)
             IN  [k |-> "fin", n |-> n \div g, d |-> d \div g]

IsFin(x) == x.k = "fin"

\* IEEE subtraction a - b
FSub(a, b) ==
    IF a.k = "nan" \/ b.k = "nan" THEN NaN
    ELSE IF a.k = "inf" /\ b.k = "inf"
         THEN (IF a.n = b.n THEN NaN ELSE a)
    ELSE IF a.k = "inf" THEN a
    ELSE IF b.k = "inf" THEN Inf(-b.n)
    ELSE Fin(a.n * b.d - b.n * a.d, a.d * b.d)

\* IEEE division of the float a by the tick count t, as numpy evaluates it:
\* a zero divisor gives NaN or a signed infinity (with a RuntimeWarning)
NpDivide(a, t) ==
    IF a.k = "nan" THEN NaN
    ELSE IF t = 0
         THEN (IF a.n = 0 THEN NaN ELSE Inf(IF a.n > 0 THEN 1 ELSE -1))
    ELSE IF a.k = "inf" THEN Inf(IF t > 0 THEN a.n ELSE -a.n)
    ELSE IF t > 0 THEN Fin(a.n, a.d * t)
    ELSE Fin(-a.n, a.d * (-t))

\* ---- sequences ------------------------------------------------------------
RECURSIVE SumSeq(_)
SumSeq(s) == IF s = << >> THEN 0 ELSE Head(s) + SumSeq(Tail(s))

\* the weights taken as 1-based positions
WeightedSumOneBased(m) == SumSeq([i \in 1..Len(m) |-> m[i] * i])

\* np.sum(m * np.arange(m.size)): the weights are the 0-based indices
WeightedSum(m) == SumSeq([i \in 1..Len(m) |-> m[i] * (i - 1)])

\* ---- calculate_center_of_mass ----------------------------------------
\* m_x = array_tiff.sum(axis=1): one entry per row (the columns are summed)
MassX(f) == [i \in 1..Len(f) |-> SumSeq(f[i])]

\* m_y = array_tiff.sum(axis=0): one entry per column (the rows are summed)
MassY(f) == [j \in 1..Len(f[1]) |-> SumSeq([i \in 1..Len(f) |-> f[i][j]])]

\* the two coordinates returned in the other order
calculate_center_of_mass_swapped(f) ==
    LET m_x == MassX(f)
        m_y == MassY(f)
        cmx == NpDivide(Fin(WeightedSum(m_x), 1), SumSeq(m_x))
        cmy == NpDivide(Fin(WeightedSum(m_y), 1), SumSeq(m_y))
    IN  <<cmy, cmx>>

calculate_center_of_mass(f) ==
    LET m_x == MassX(f)
        m_y == MassY(f)
        cmx == NpDivide(Fin(WeightedSum(m_x), 1), SumSeq(m_x))
        cmy == NpDivide(Fin(WeightedSum(m_y), 1), SumSeq(m_y))
    IN  <<cmx, cmy>>

\* ---- calculate_displacement / calculate_time_steps -------------------
\* initial minus final
DisplacementReversed(v) ==
    [i \in 1..(IF Len(v) = 0 THEN 0 ELSE Len(v) - 1) |-> FSub(v[i], v[i + 1])]

\* zip(v[:], v[1:]) pairs v[i] with v[i+1]; the shorter list ends the zip
Displacement(v) ==
    [i \in 1..(IF Len(v) = 0 THEN 0 ELSE Len(v) - 1) |-> FSub(v[i + 1], v[i])]

calculate_displacement(cmx, cmy) == <<Displacement(cmx), Displacement(cmy)>>

calculate_time_steps(ts) ==
    [i \in 1..(IF Len(ts) = 0 THEN 0 ELSE Len(ts) - 1) |-> ts[i + 1] - ts[i]]

\* ---- calculate_inst_vel ----------------------------------------------
\* the indices zip(disp, time_steps) visits
ZipLen(a, b) == Min(Len(a), Len(b))

\* x / step for every zipped pair (an IEEE quotient when step is non-zero)
Quotients(disp, steps) ==
    [i \in 1..ZipLen(disp, steps) |-> NpDivide(disp[i], steps[i])]

\* Python's float / float raises ZeroDivisionError on a zero divisor
HasZeroStep(disp, steps) == \E i \in 1..ZipLen(disp, steps) : steps[i] = 0

\* numpy is TRUE when the unpickled timestamps are numpy floats
calculate_inst_vel(xd, yd, steps, numpy) ==
    IF ~numpy /\ (HasZeroStep(xd, steps) \/ HasZeroStep(yd, steps))
    THEN [err |-> "ZeroDivisionError", x |-> << >>, y |-> << >>]
    ELSE [err |-> "", x |-> Quotients(xd, steps), y |-> Quotients(yd, steps)]

\* ---- round() --------------------------------------------------------------
\* Python 3 round(float): nearest integer, a tie goes to the even neighbour
PyRound(x) ==
    LET q == x.n \div x.d
        r == x.n % x.d
    IN  IF 2 * r < x.d THEN q
        ELSE IF 2 * r > x.d THEN q + 1
        ELSE IF q % 2 = 0 THEN q ELSE q + 1

\* round() raises ValueError on NaN and OverflowError on an infinity
RoundError(coords) ==
    IF \E i \in 1..Len(coords) : ~IsFin(coords[i])
    THEN LET i == CHOOSE i \in 1..Len(coords) :
                      /\ ~IsFin(coords[i])
                      /\ \A j \in 1..(i - 1) : IsFin(coords[j])
         IN  IF coords[i].k = "nan" THEN "ValueError" ELSE "OverflowError"
    ELSE ""

RoundAll(coords) == [i \in 1..Len(coords) |-> PyRound(coords[i])]

\* float(np.float64): the same value as a Python float
PyFloat(x) == IF x.k = "fin" THEN Fin(x.n, x.d) ELSE x

\* ---- display_cm_overlay ----------------------------------------------
Height(stack) == Len(stack[1])

Width(stack) == Len(stack[1][1])

\* numpy index i on an axis of length n: 0-based position, negative indices
\* count from the end, anything else is an IndexError (-1 here)
NpIndex(i, n) ==
    IF 0 <= i /\ i < n THEN i
    ELSE IF -n <= i /\ i < 0 THEN i + n
    ELSE -1

OverlayIndexError(stack, xs, ys) ==
    \E k \in 1..Len(stack) :
        \/ k > Len(xs)
        \/ k > Len(ys)
        \/ NpIndex(xs[k], Height(stack)) = -1
        \/ NpIndex(ys[k], Width(stack)) = -1

\* np.stack((f, f, f), axis=2) is a new array; the red pixel is written to it
display_cm_overlay(stack, xs, ys) ==
    [k \in 1..Len(stack) |->
        [r \in 1..Height(stack) |->
            [c \in 1..Width(stack) |->
                IF /\ r - 1 = NpIndex(xs[k], Height(stack))
                   /\ c - 1 = NpIndex(ys[k], Width(stack))
                THEN <<255, 0, 0>>
                ELSE <<stack[k][r][c], stack[k][r][c], stack[k][r][c]>>]]]

\* ---- get_options -------------------------------------------------------
\* no validation: whatever is typed is accepted
valid_inputs_any == {"g", "c", "p", "o", "h", "q", "x", ""}

valid_inputs == {"g", "c", "p", "o", "h", "q"}

\* what the user may type at a prompt
Inputs == {"g", "c", "p", "o", "h", "q", "Q", "C", "x", ""}

\* str.lower()
Lower(s) ==
    CASE s = "Q" -> "q"
      [] s = "C" -> "c"
      [] OTHER -> s

\* ---- inputs -------------------------------------------------------------
\* H x W frames of intensities 0..I
Frames(H, W, I) == [1..H -> [1..W -> 0..I]]

\* frames with some intensity in them
PositiveFrames(H, W, I) ==
    {f \in Frames(H, W, I) : \E i \in 1..H, j \in 1..W : f[i][j] > 0}

\* the H x W frame whose only non-zero pixel is (row r, column c), 0-based
PointFrame(H, W, r, c, v) ==
    [i \in 1..H |-> [j \in 1..W |-> IF i = r + 1 /\ j = c + 1 THEN v ELSE 0]]

PointFrames4 ==
    {PointFrame(PointDim, PointDim, r, c, v) :
        r \in 0..(PointDim - 1), c \in 0..(PointDim - 1), v \in 1..MaxI}

\* non-decreasing tick series of length L
TimeSeries(L) ==
    {t \in [1..L -> 0..MaxT] : \A i \in 1..(L - 1) : t[i] <= t[i + 1]}

\* one tick per frame, strictly increasing
AlignedTicks(N) == [i \in 1..N |-> i - 1]

\* integer coordinates as floats
CoordLists(L) == [1..L -> {Fin(v, 1) : v \in 0..MaxCoord}]

\* main() up to line 76: the files are loaded, nothing is computed yet
Start ==
    /\ pc = "cm"
    /\ frame = 0
    /\ cmx_coords = << >>
    /\ cmy_coords = << >>
    /\ cmx_coords_floats = << >>
    /\ cmy_coords_floats = << >>
    /\ x_disp = << >>
    /\ y_disp = << >>
    /\ time_steps = << >>
    /\ x_inst_vel = << >>
    /\ y_inst_vel = << >>
    /\ cmx_rounded = << >>
    /\ cmy_rounded = << >>
    /\ user_input = ""
    /\ user_choice = ""
    /\ quit_program = FALSE
    /\ stack_overlaid = << >>
    /\ err = ""

\* any stack of up to MaxN non-blank frames and any tick series, aligned or
\* not, with or without repeated ticks
Init ==
    /\ \E N \in 1..MaxN, H \in 1..MaxH, W \in 1..MaxW :
           array_tiff \in [1..N -> PositiveFrames(H, W, MaxI)]
    /\ \E L \in 0..(MaxN + 1) : timestamps \in TimeSeries(L)
    /\ ts_numpy \in BOOLEAN
    /\ Start

\* a single frame, blank or not, with its timestamp
InitCM ==
    /\ \E H \in 1..MaxH, W \in 1..MaxW :
           \E f \in Frames(H, W, MaxI) : array_tiff = <<f>>
    /\ timestamps = AlignedTicks(1)
    /\ ts_numpy = FALSE
    /\ Start

\* stacks of single-bright-pixel frames with aligned timestamps
InitPoint ==
    /\ \E N \in 1..PointFrames : array_tiff \in [1..N -> PointFrames4]
    /\ timestamps = AlignedTicks(Len(array_tiff))
    /\ ts_numpy = FALSE
    /\ Start

\* calculate_displacement on arbitrary integer coordinate lists
InitDisp ==
    /\ array_tiff = << >>
    /\ timestamps = << >>
    /\ ts_numpy = FALSE
    /\ frame = 0
    /\ \E L \in 0..MaxLen :
           /\ cmx_coords \in CoordLists(L)
           /\ cmy_coords \in CoordLists(L)
    /\ pc = "disp"
    /\ cmx_coords_floats = << >>
    /\ cmy_coords_floats = << >>
    /\ x_disp = << >>
    /\ y_disp = << >>
    /\ time_steps = << >>
    /\ x_inst_vel = << >>
    /\ y_inst_vel = << >>
    /\ cmx_rounded = << >>
    /\ cmy_rounded = << >>
    /\ user_input = ""
    /\ user_choice = ""
    /\ quit_program = FALSE
    /\ stack_overlaid = << >>
    /\ err = ""

\* ---- main: the analysis ------------------------------------------------
\* one pass of the loop at lines 78-81
CenterOfMassLoop ==
    /\ pc = "cm"
    /\ frame < Len(array_tiff)
    /\ LET cm == calculate_center_of_mass(array_tiff[frame + 1])
       IN  /\ cmx_coords' = Append(cmx_coords, cm[1])
           /\ cmy_coords' = Append(cmy_coords, cm[2])
    /\ frame' = frame + 1
    /\ pc' = IF frame + 1 = Len(array_tiff) THEN "disp" ELSE "cm"
    /\ UNCHANGED <<array_tiff, timestamps, ts_numpy, cmx_coords_floats,
                   cmy_coords_floats, x_disp, y_disp, time_steps, x_inst_vel,
                   y_inst_vel, cmx_rounded, cmy_rounded, user_input,
                   user_choice, quit_program, stack_overlaid, err>>

\* lines 85-89
CalcDisplacement ==
    /\ pc = "disp"
    /\ LET xf == [i \in 1..Len(cmx_coords) |-> PyFloat(cmx_coords[i])]
           yf == [i \in 1..Len(cmy_coords) |-> PyFloat(cmy_coords[i])]
           d  == calculate_displacement(xf, yf)
       IN  /\ cmx_coords_floats' = xf
           /\ cmy_coords_floats' = yf
           /\ x_disp' = d[1]
           /\ y_disp' = d[2]
    /\ pc' = "steps"
    /\ UNCHANGED <<array_tiff, timestamps, ts_numpy, frame, cmx_coords,
                   cmy_coords, time_steps, x_inst_vel, y_inst_vel,
                   cmx_rounded, cmy_rounded, user_input, user_choice,
                   quit_program, stack_overlaid, err>>

\* line 92
CalcTimeSteps ==
    /\ pc = "steps"
    /\ time_steps' = calculate_time_steps(timestamps)
    /\ pc' = "vel"
    /\ UNCHANGED <<array_tiff, timestamps, ts_numpy, frame, cmx_coords,
                   cmy_coords, cmx_coords_floats, cmy_coords_floats, x_disp,
                   y_disp, x_inst_vel, y_inst_vel, cmx_rounded, cmy_rounded,
                   user_input, user_choice, quit_program, stack_overlaid,
                   err>>

\* line 95; an exception ends the program (only KeyboardInterrupt is caught)
CalcInstVel ==
    /\ pc = "vel"
    /\ LET v == calculate_inst_vel(x_disp, y_disp, time_steps, ts_numpy)
       IN  /\ x_inst_vel' = v.x
           /\ y_inst_vel' = v.y
           /\ err' = v.err
           /\ pc' = IF v.err = "" THEN "round" ELSE "crashed"
    /\ UNCHANGED <<array_tiff, timestamps, ts_numpy, frame, cmx_coords,
                   cmy_coords, cmx_coords_floats, cmy_coords_floats, x_disp,
                   y_disp, time_steps, cmx_rounded, cmy_rounded, user_input,
                   user_choice, quit_program, stack_overlaid>>

\* lines 98-99
RoundCoords ==
    /\ pc = "round"
    /\ LET ex == RoundError(cmx_coords_floats)
           ey == RoundError(cmy_coords_floats)
       IN  IF ex # ""
           THEN /\ err' = ex
                /\ pc' = "crashed"
                /\ UNCHANGED <<cmx_rounded, cmy_rounded>>
           ELSE IF ey # ""
           THEN /\ err' = ey
                /\ pc' = "crashed"
                /\ cmx_rounded' = RoundAll(cmx_coords_floats)
                /\ UNCHANGED cmy_rounded
           ELSE /\ cmx_rounded' = RoundAll(cmx_coords_floats)
                /\ cmy_rounded' = RoundAll(cmy_coords_floats)
                /\ pc' = "get_options"
                /\ UNCHANGED err
    /\ UNCHANGED <<array_tiff, timestamps, ts_numpy, frame, cmx_coords,
                   cmy_coords, cmx_coords_floats, cmy_coords_floats, x_disp,
                   y_disp, time_steps, x_inst_vel, y_inst_vel, user_input,
                   user_choice, quit_program, stack_overlaid>>

\* ---- get_options / display_data ------------------------------------------
\* lines 115-117: the first prompt of a get_options call
GetOptions ==
    /\ pc = "get_options"
    /\ \E inp \in Inputs :
           /\ user_input' = Lower(inp)
           /\ IF Lower(inp) \in valid_inputs
              THEN /\ user_choice' = Lower(inp)
                   /\ pc' = "display_data"
              ELSE /\ pc' = "get_options_retry"
                   /\ UNCHANGED user_choice
    /\ UNCHANGED <<array_tiff, timestamps, ts_numpy, frame, cmx_coords,
                   cmy_coords, cmx_coords_floats, cmy_coords_floats, x_disp,
                   y_disp, time_steps, x_inst_vel, y_inst_vel, cmx_rounded,
                   cmy_rounded, quit_program, stack_overlaid, err>>

\* lines 119-124: one pass of the "Invalid. Pick a valid option" loop
GetOptionsRetry ==
    /\ pc = "get_options_retry"
    /\ \E inp \in Inputs :
           /\ user_input' = Lower(inp)
           /\ IF Lower(inp) \in valid_inputs
              THEN /\ user_choice' = Lower(inp)
                   /\ pc' = "display_data"
              ELSE /\ pc' = "get_options_retry"
                   /\ UNCHANGED user_choice
    /\ UNCHANGED <<array_tiff, timestamps, ts_numpy, frame, cmx_coords,
                   cmy_coords, cmx_coords_floats, cmy_coords_floats, x_disp,
                   y_disp, time_steps, x_inst_vel, y_inst_vel, cmx_rounded,
                   cmy_rounded, quit_program, stack_overlaid, err>>

\* lines 142-144: play_image_stack renders and returns
DisplayG ==
    /\ pc = "display_data"
    /\ ~quit_program
    /\ user_choice = "g"
    /\ pc' = "get_options"
    /\ UNCHANGED <<array_tiff, timestamps, ts_numpy, frame, cmx_coords,
                   cmy_coords, cmx_coords_floats, cmy_coords_floats, x_disp,
                   y_disp, time_steps, x_inst_vel, y_inst_vel, cmx_rounded,
                   cmy_rounded, user_input, user_choice, quit_program,
                   stack_overlaid, err>>

\* lines 145-150
DisplayC ==
    /\ pc = "display_data"
    /\ ~quit_program
    /\ user_choice = "c"
    /\ IF OverlayIndexError(array_tiff, cmx_rounded, cmy_rounded)
       THEN /\ err' = "IndexError"
            /\ pc' = "crashed"
            /\ UNCHANGED stack_overlaid
       ELSE /\ stack_overlaid' =
                   display_cm_overlay(array_tiff, cmx_rounded, cmy_rounded)
            /\ pc' = "get_options"
            /\ UNCHANGED err
    /\ UNCHANGED <<array_tiff, timestamps, ts_numpy, frame, cmx_coords,
                   cmy_coords, cmx_coords_floats, cmy_coords_floats, x_disp,
                   y_disp, time_steps, x_inst_vel, y_inst_vel, cmx_rounded,
                   cmy_rounded, user_input, user_choice, quit_program>>

\* lines 151-153: plot_xy_inst_vel renders and returns
DisplayP ==
    /\ pc = "display_data"
    /\ ~quit_program
    /\ user_choice = "p"
    /\ pc' = "get_options"
    /\ UNCHANGED <<array_tiff, timestamps, ts_numpy, frame, cmx_coords,
                   cmy_coords, cmx_coords_floats, cmy_coords_floats, x_disp,
                   y_disp, time_steps, x_inst_vel, y_inst_vel, cmx_rounded,
                   cmy_rounded, user_input, user_choice, quit_program,
                   stack_overlaid, err>>

\* lines 154-156
DisplayO ==
    /\ pc = "display_data"
    /\ ~quit_program
    /\ user_choice = "o"
    /\ pc' = "get_options"
    /\ UNCHANGED <<array_tiff, timestamps, ts_numpy, frame, cmx_coords,
                   cmy_coords, cmx_coords_floats, cmy_coords_floats, x_disp,
                   y_disp, time_steps, x_inst_vel, y_inst_vel, cmx_rounded,
                   cmy_rounded, user_input, user_choice, quit_program,
                   stack_overlaid, err>>

\* lines 157-158: any other choice ends the loop
DisplayQuit ==
    /\ pc = "display_data"
    /\ ~quit_program
    /\ user_choice \notin {"g", "c", "p", "o"}
    /\ quit_program' = TRUE
    /\ pc' = "done"
    /\ UNCHANGED <<array_tiff, timestamps, ts_numpy, frame, cmx_coords,
                   cmy_coords, cmx_coords_floats, cmy_coords_floats, x_disp,
                   y_disp, time_steps, x_inst_vel, y_inst_vel, cmx_rounded,
                   cmy_rounded, user_input, user_choice, stack_overlaid,
                   err>>

\* ---- specifications ------------------------------------------------------
Next ==
    \/ CenterOfMassLoop
    \/ CalcDisplacement
    \/ CalcTimeSteps
    \/ CalcInstVel
    \/ RoundCoords
    \/ GetOptions
    \/ GetOptionsRetry
    \/ DisplayG
    \/ DisplayC
    \/ DisplayP
    \/ DisplayO
    \/ DisplayQuit

Spec == Init /\ [][Next]_vars

SpecCM == InitCM /\ [][Next]_vars

SpecPoint == InitPoint /\ [][Next]_vars

NextDisp == CalcDisplacement

SpecDisp == InitDisp /\ [][NextDisp]_vars

\* ---- helpers of the properties ---------------------------------------
Mass(f) == SumSeq(MassX(f))

IsPointAt(f, r, c) ==
    /\ f[r + 1][c + 1] > 0
    /\ \A i \in 1..Len(f), j \in 1..Len(f[1]) :
           (i # r + 1 \/ j # c + 1) => f[i][j] = 0

FAdd(a, b) == FSub(a, FSub(Fin(0, 1), b))

\* v0 + d[1] + ... + d[i]
RECURSIVE PlusFirst(_, _, _)
PlusFirst(v0, d, i) == IF i = 0 THEN v0 ELSE FAdd(PlusFirst(v0, d, i - 1), d[i])

\* nearest integer, a tie goes away from zero
RoundHalfAway(x) ==
    IF x.n >= 0 THEN (2 * x.n + x.d) \div (2 * x.d)
    ELSE -((2 * (-x.n) + x.d) \div (2 * x.d))

Clamp(v, lo, hi) == IF v < lo THEN lo ELSE IF v > hi THEN hi ELSE v

\* every frame the loop has processed so far
Processed == 1..Len(cmx_coords)

\* main has run past line 99
PipelineComplete == pc \in {"get_options", "get_options_retry",
                            "display_data", "done"}

\* ---- C1 -------------------------------------------------------------------
\* C1: a frame whose only non-zero pixel is at (row r, column c) has the
\* centroid (cmx, cmy) = (c, r): column is x and row is y.
C1_ColumnIsX ==
    \A k \in Processed :
        \A r \in 0..(Height(array_tiff) - 1), c \in 0..(Width(array_tiff) - 1) :
            IsPointAt(array_tiff[k], r, c) =>
                /\ cmx_coords[k] = Fin(c, 1)
                /\ cmy_coords[k] = Fin(r, 1)

\* ---- C2 -------------------------------------------------------------------
\* C2: an all-zero frame makes the extraction fail with EmptyMassError; no
\* NaN or infinite centroid is ever appended to the trajectory.
C2_EmptyMassError ==
    /\ \A k \in Processed : IsFin(cmx_coords[k]) /\ IsFin(cmy_coords[k])
    /\ (\E k \in 1..frame : Mass(array_tiff[k]) = 0) =>
           (pc = "crashed" /\ err = "EmptyMassError")

\* ---- C3 -------------------------------------------------------------------
\* C3: when the number of timestamps differs from the number of frames the
\* run fails with AlignmentError before any displacement or velocity is
\* computed.
C3_AlignmentError ==
    Len(timestamps) # Len(array_tiff) =>
        /\ pc \in {"cm", "disp"} \/ (pc = "crashed" /\ err = "AlignmentError")
        /\ x_inst_vel = << >>
        /\ y_inst_vel = << >>

\* ---- C4 -------------------------------------------------------------------
\* C4: two equal consecutive timestamps make calculate_inst_vel fail with
\* ZeroTimestepError, and no velocity of a zero time step is infinite or NaN.
C4_ZeroTimestepError ==
    /\ (/\ pc \notin {"cm", "disp", "steps", "vel"}
        /\ \E i \in 1..ZipLen(x_disp, time_steps) : time_steps[i] = 0)
       => (pc = "crashed" /\ err = "ZeroTimestepError")
    /\ \A i \in 1..Len(x_inst_vel) :
           time_steps[i] = 0 => IsFin(x_inst_vel[i]) /\ IsFin(y_inst_vel[i])

\* ---- C5 -------------------------------------------------------------------
\* C5: once the analysis of N frames is complete the coordinate lists have
\* length N and the displacement and velocity lists all have length N - 1.
C5_Lengths ==
    PipelineComplete =>
        /\ Len(cmx_coords) = Len(array_tiff)
        /\ Len(cmy_coords) = Len(array_tiff)
        /\ Len(x_disp) = Len(array_tiff) - 1
        /\ Len(y_disp) = Len(array_tiff) - 1
        /\ Len(x_inst_vel) = Len(array_tiff) - 1
        /\ Len(y_inst_vel) = Len(array_tiff) - 1

\* ---- C6 -------------------------------------------------------------------
\* C6: every coordinate equals the first coordinate plus the sum of the
\* displacements before it, for the x list and for the y list.
C6_Reconstruction ==
    pc = "steps" =>
        /\ \A i \in 1..Len(cmx_coords_floats) :
               /\ i - 1 <= Len(x_disp)
               /\ cmx_coords_floats[i] =
                      PlusFirst(cmx_coords_floats[1], x_disp, i - 1)
        /\ \A i \in 1..Len(cmy_coords_floats) :
               /\ i - 1 <= Len(y_disp)
               /\ cmy_coords_floats[i] =
                      PlusFirst(cmy_coords_floats[1], y_disp, i - 1)

\* displacements were computed for a list that moves back and forth
C6_Witness ==
    /\ pc = "steps"
    /\ Len(cmx_coords_floats) >= 3
    /\ cmx_coords_floats[1] = Fin(1, 1)
    /\ cmx_coords_floats[2] = Fin(0, 1)
    /\ cmx_coords_floats[3] = Fin(2, 1)
    /\ x_disp[1] = Fin(-1, 1)
    /\ x_disp[2] = Fin(2, 1)

\* ---- C7 -------------------------------------------------------------------
\* C7: the centroid of a frame with positive mass lies in [0, length - 1]
\* of the axis its mass profile runs over.
C7_CentroidInBounds ==
    \A k \in Processed :
        Mass(array_tiff[k]) > 0 =>
            /\ IsFin(cmx_coords[k])
            /\ 0 <= cmx_coords[k].n
            /\ cmx_coords[k].n <= (Len(MassX(array_tiff[k])) - 1) * cmx_coords[k].d
            /\ IsFin(cmy_coords[k])
            /\ 0 <= cmy_coords[k].n
            /\ cmy_coords[k].n <= (Len(MassY(array_tiff[k])) - 1) * cmy_coords[k].d

\* a centroid on the far edge of one axis and strictly inside the other
C7_Witness ==
    /\ Len(cmx_coords) = 1
    /\ Height(array_tiff) = MaxH
    /\ Width(array_tiff) = MaxW
    /\ cmx_coords[1] = Fin(MaxH - 1, 1)
    /\ cmy_coords[1] = Fin(1, 2)

\* ---- C8 -------------------------------------------------------------------
\* C8: each rounded coordinate is the centroid coordinate rounded half away
\* from zero and then clamped into [0, dimension - 1].
C8_RoundHalfAway ==
    /\ \A i \in 1..Len(cmx_rounded) :
           cmx_rounded[i] =
               Clamp(RoundHalfAway(cmx_coords_floats[i]), 0,
                     Height(array_tiff) - 1)
    /\ \A i \in 1..Len(cmy_rounded) :
           cmy_rounded[i] =
               Clamp(RoundHalfAway(cmy_coords_floats[i]), 0,
                     Width(array_tiff) - 1)

\* ---- C9 -------------------------------------------------------------------
\* C9: when display_cm_overlay runs, every index pair it writes to is inside
\* its frame (row index 0..H-1, column index 0..W-1), the red pixel lands in
\* the copy at that pair, and the input stack is left unchanged.
OverlayStep ==
    /\ \A k \in 1..Len(array_tiff) :
           /\ 0 <= cmx_rounded[k]
           /\ cmx_rounded[k] <= Height(array_tiff) - 1
           /\ 0 <= cmy_rounded[k]
           /\ cmy_rounded[k] <= Width(array_tiff) - 1
           /\ stack_overlaid'[k][cmx_rounded[k] + 1][cmy_rounded[k] + 1]
                  = <<255, 0, 0>>
    /\ pc' = "get_options"
    /\ err' = ""
    /\ array_tiff' = array_tiff

C9_OverlayInBounds ==
    [][(pc = "display_data" /\ user_choice = "c") => OverlayStep]_vars

\* an overlay was made of a frame whose centroid was rounded onto the last row
C9_Witness ==
    /\ stack_overlaid # << >>
    /\ Height(array_tiff) = MaxH
    /\ Width(array_tiff) = MaxW
    /\ cmx_rounded[1] = MaxH - 1
    /\ cmx_coords_floats[1] # Fin(MaxH - 1, 1)
    /\ stack_overlaid[1][MaxH][cmy_rounded[1] + 1] = <<255, 0, 0>>

\* ---- C10 ------------------------------------------------------------------
\* C10: get_options returns only g, c, p, o, h or q and re-prompts otherwise;
\* display_data asks again after g, c, p and o and ends at any other choice,
\* so the loop ends exactly at the first q or h.
MenuChoices == {"g", "c", "p", "o", "h", "q"}

PromptStep ==
    \/ /\ pc' = "display_data"
       /\ user_choice' \in MenuChoices
       /\ user_choice' = user_input'
    \/ /\ pc' = "get_options_retry"
       /\ user_input' \notin MenuChoices
       /\ user_choice' = user_choice

DisplayStep ==
    IF user_choice \in {"g", "c", "p", "o"}
    THEN pc' = "get_options" /\ ~quit_program'
    ELSE pc' = "done" /\ quit_program' /\ user_choice \in {"h", "q"}

C10_MenuLoop ==
    /\ [](pc = "display_data" => user_choice \in MenuChoices)
    /\ [](quit_program <=> pc = "done")
    /\ [][(pc \in {"get_options", "get_options_retry"}) => PromptStep]_vars
    /\ [][(pc = "display_data") => DisplayStep]_vars

\* the loop was left through h after an overlay had been shown
C10_Witness ==
    /\ pc = "done"
    /\ quit_program
    /\ user_choice = "h"
    /\ stack_overlaid # << >>

====
